---- MODULE Spec2Model ----
(***************************************************************************)
(* Model of the bilingual-ard content script (src/content.js): caption     *)
(* capture, translation cache, pause-gated rendering and the observer      *)
(* lifecycle across single-page navigations.                               *)
(*                                                                         *)
(* One action is one browser task: the host's change or the timer, the     *)
(* mutation-observer callbacks it delivers and the promise continuations   *)
(* that run before the next task.                                          *)
(***************************************************************************)
EXTENDS Integers, Sequences, FiniteSets, TLC

\* ------------------------------------------------------------------ bounds
\* caption paragraphs the host keeps in the document at a time, in a run
\* without navigation
MaxCaptions == 2
\* the same, in a run with navigation
MaxNavCaptions == 1
\* waitForElement calls followed on their own
NumCalls == 2
\* the longest step of the clock, in ms
TickMs == 2500
\* initializeExtension invocations scheduled or suspended at one time
MaxPending == 2

\* ----------------------------------------------------------------- strings
\* A string is a sequence of one-character strings.
\* the letters of the model's alphabet, small and capital
Small == <<"a", "b", "e", "h", "l", "o", "t", "w">>
Capital == <<"A", "B", "E", "H", "L", "O", "T", "W">>
Lower(c) ==
    IF \E i \in 1..Len(Capital) : Capital[i] = c
    THEN Small[CHOOSE i \in 1..Len(Capital) : Capital[i] = c] ELSE c
Upper(c) ==
    IF \E i \in 1..Len(Small) : Small[i] = c
    THEN Capital[CHOOSE i \in 1..Len(Small) : Small[i] = c] ELSE c
IsSpace(c) == c \in {" ", "\n"}
IsWord(c) == \E i \in 1..Len(Small) : c \in {Small[i], Capital[i]}

RECURSIVE TrimLeft(_)
TrimLeft(s) == IF s # <<>> /\ IsSpace(Head(s)) THEN TrimLeft(Tail(s)) ELSE s

RECURSIVE TrimRight(_)
TrimRight(s) ==
    IF s # <<>> /\ IsSpace(s[Len(s)]) THEN TrimRight(SubSeq(s, 1, Len(s) - 1)) ELSE s

Trim(s) == TrimRight(TrimLeft(s))

\* innerText.trim().replace(/\n/g, ' ')
Normalize(s) == [i \in 1..Len(Trim(s)) |-> IF Trim(s)[i] = "\n" THEN " " ELSE Trim(s)[i]]

\* result[0].map(item => item[0]).join(" ")
RECURSIVE Join(_)
Join(frags) ==
    IF frags = <<>> THEN <<>>
    ELSE IF Len(frags) = 1 THEN frags[1]
    ELSE frags[1] \o <<" ">> \o Join(Tail(frags))

\* position j ends a match of /(^\w|\.\s*\w)/
RECURSIVE AfterPeriod(_, _)
AfterPeriod(s, j) ==
    IF j < 1 THEN FALSE
    ELSE IF s[j] = "." THEN TRUE
    ELSE IF IsSpace(s[j]) THEN AfterPeriod(s, j - 1)
    ELSE FALSE

\* .toLowerCase().replace(/(^\w|\.\s*\w)/g, m => m.toUpperCase())
SentenceCase(s) ==
    LET low == [i \in 1..Len(s) |-> Lower(s[i])]
    IN [j \in 1..Len(s) |->
          IF IsWord(low[j]) /\ (j = 1 \/ AfterPeriod(low, j - 1))
          THEN Upper(low[j]) ELSE low[j]]

\* fetchTranslation's value for the fragments result[0].map(item => item[0])
JoinAndCase(frags) == SentenceCase(Join(frags))

\* ------------------------------------------------- the translation service
\* what the host can put in a caption paragraph (innerText)
RawTexts == { <<" ", "a", "\n">>, <<"a", "\n", "b">>, <<"\n">> }

\* fragments of the service's answer for a request text
Service(text) ==
    IF text = <<"a">> THEN << <<"B">>, <<"A">> >>
    ELSE IF text = <<"a", " ", "b">> THEN << <<"a", ".", "b">> >>
    ELSE IF text = <<"B", " ", "a">> THEN << <<"a", ".", "b">> >>
    ELSE IF text = <<"A", ".", "B">> THEN << <<"b">>, <<"a">> >>
    ELSE << text >>

\* fetchTranslation: the resolved value; ok = FALSE is a network or parse error
FetchTranslation(text, ok) == IF ok THEN JoinAndCase(Service(text)) ELSE <<>>

Keys ==
    LET k0 == {Normalize(r) : r \in RawTexts} \ {<<>>}
        k1 == k0 \cup {Normalize(FetchTranslation(k, TRUE)) : k \in k0}
    IN k1 \cup {Normalize(FetchTranslation(k, TRUE)) : k \in k1}


\* ------------------------------------------------------------------- state
Urls == {"u1", "u2"}
\* caption parents inside the container, and whether [lang='de-DE'] covers them
Parents == {1, 2}
IsGerman(p) == p = 1

VARIABLES
    translationCache,  \* Map: normalized text -> null or translated string
    observers,         \* the script's list of MutationObservers
    currentUrl,        \* the URL the script last recorded
    registered,        \* the browser's side: observers currently observing
    waiting,           \* initializeExtension runs suspended in waitForElement
    timers,            \* scheduled calls of initializeExtension, by origin
    inflight,          \* fetchTranslation calls not yet resolved, per text
    fetchCalls,        \* fetchTranslation calls made so far, per text
    dom,               \* the p elements under each caption parent, in order
    location,          \* window.location.href
    container,         \* .ardplayer-untertitel is in the document
    button,            \* .ardplayer-button-playpause: absent, playing, paused
    waits,             \* waitForElement calls: promise, observer, timer, clock
    response,          \* the fragments of a parsed response in fetchTranslation
    returned           \* what that fetchTranslation call returned

vars == <<translationCache, observers, currentUrl, registered, waiting, timers,
          inflight, fetchCalls, dom, location, container, button, waits,
          response, returned>>

\* a Map value: null or a string
Null == [null |-> TRUE, str |-> <<>>]
Str(v) == [null |-> FALSE, str |-> v]
\* a test that lets every value through
Truthy_Always(e) == TRUE

Truthy(e) == ~e.null /\ e.str # <<>>
Has(c, k) == k \in DOMAIN c
\* Map.get: undefined reads as null here, both are falsy
Get(c, k) == IF Has(c, k) THEN c[k] ELSE Null
Put(c, k, e) == [j \in DOMAIN c \cup {k} |-> IF j = k THEN e ELSE c[j]]

\* the part of the state the script's functions read and write
Prog == [cache |-> translationCache, observers |-> observers, currentUrl |-> currentUrl,
         registered |-> registered, waiting |-> waiting, timers |-> timers,
         inflight |-> inflight, fetchCalls |-> fetchCalls, dom |-> dom]

Commit(s) ==
    /\ translationCache' = s.cache
    /\ observers' = s.observers
    /\ currentUrl' = s.currentUrl
    /\ registered' = s.registered
    /\ waiting' = s.waiting
    /\ timers' = s.timers
    /\ inflight' = s.inflight
    /\ fetchCalls' = s.fetchCalls
    /\ dom' = s.dom
    /\ waits' = waits
    /\ response' = response
    /\ returned' = returned

\* ------------------------------------------------------- observer handles
RECURSIVE RemoveFirst(_, _)
RemoveFirst(seq, h) ==
    IF seq = <<>> THEN <<>>
    ELSE IF Head(seq) = h THEN Tail(seq)
    ELSE <<Head(seq)>> \o RemoveFirst(Tail(seq), h)

\* obs.disconnect(): the browser drops that observer's registration
RECURSIVE DisconnectAll(_, _)
DisconnectAll(reg, list) ==
    IF list = <<>> THEN reg
    ELSE DisconnectAll(RemoveFirst(reg, Head(list)), Tail(list))

Count(seq, h) == Cardinality({i \in 1..Len(seq) : seq[i] = h})

\* new MutationObserver(...); observer.observe(root, config); observers.push(observer)
Observe(s, h) == [s EXCEPT !.registered = Append(@, h), !.observers = Append(@, h)]

\* cleanup that forgets to disconnect
cleanup_NoDisconnect(s) == [s EXCEPT !.observers = <<>>]

\* cleanup that also starts a new Map
cleanup_ResetsCache(s) ==
    [s EXCEPT !.registered = DisconnectAll(@, s.observers), !.observers = <<>>,
              !.cache = <<>>]

cleanup(s) == [s EXCEPT !.registered = DisconnectAll(@, s.observers), !.observers = <<>>]

\* ---------------------------------------------------------------- captions
\* a p element: marked is dataset.translated; stored counts the calls of
\* storeSubtitle with the node, skipped tells that a callback found it marked
Orig(raw) ==
    [cls |-> "orig", text |-> raw, marked |-> FALSE, display |-> "", stored |-> 0, skipped |-> FALSE]
Translated(t) ==
    [cls |-> "translated-subtitle", text |-> t, marked |-> FALSE, display |-> "block",
     stored |-> 0, skipped |-> FALSE]
IsTranslated(e) == e.cls = "translated-subtitle"

\* storeSubtitle without the has() test
storeSubtitle_NoDedup(s, raw) ==
    LET text == Normalize(raw)
    IN IF text = <<>> THEN s
       ELSE [s EXCEPT !.cache = Put(@, text, Null),
                      !.fetchCalls[text] = @ + 1,
                      !.inflight[text] = @ + 1]

storeSubtitle(s, raw) ==
    LET text == Normalize(raw)
    IN IF text = <<>> THEN s
       ELSE IF ~Has(s.cache, text)
       THEN [s EXCEPT !.cache = Put(@, text, Null),
                      !.fetchCalls[text] = @ + 1,
                      !.inflight[text] = @ + 1]
       ELSE s

\* a caption observer's callback without the dataset.translated test
CaptionAdded_NoMarker(s, p, i) ==
    IF ~IsGerman(p) THEN s
    ELSE storeSubtitle([s EXCEPT !.dom[p][i].marked = TRUE, !.dom[p][i].stored = @ + 1,
                                 !.dom[p][i].skipped = s.dom[p][i].marked],
                       s.dom[p][i].text)

\* the caption observer's callback for one added node, the element at dom[p][i]
CaptionAdded(s, p, i) ==
    IF ~IsGerman(p) THEN s
    ELSE IF ~s.dom[p][i].marked
    THEN storeSubtitle([s EXCEPT !.dom[p][i].marked = TRUE, !.dom[p][i].stored = @ + 1],
                       s.dom[p][i].text)
    ELSE [s EXCEPT !.dom[p][i].skipped = TRUE]

\* every registered caption observer is delivered the added node
RECURSIVE DeliverCaption(_, _, _, _)
DeliverCaption(s, p, i, n) ==
    IF n = 0 THEN s ELSE DeliverCaption(CaptionAdded(s, p, i), p, i, n - 1)

FirstTranslated(els) ==
    IF \E j \in 1..Len(els) : IsTranslated(els[j])
    THEN CHOOSE j \in 1..Len(els) : IsTranslated(els[j]) /\ \A k \in 1..(j - 1) : ~IsTranslated(els[k])
    ELSE 0

InsertAt(els, pos, e) == SubSeq(els, 1, pos - 1) \o <<e>> \o SubSeq(els, pos, Len(els))

\* showStoredSubtitle's forEach over the p elements that one parent held when
\* querySelectorAll ran: r.els the parent's children, r.off the elements
\* inserted so far, r.wrote whether any element was written
RECURSIVE ShowInParent(_, _, _, _)
ShowInParent(c, r, n, i) ==
    IF i > n THEN r
    ELSE LET pos == i + r.off
             translatedText == Get(c, Normalize(r.els[pos].text))
             j == FirstTranslated(r.els)
         IN IF ~Truthy(translatedText) THEN ShowInParent(c, r, n, i + 1)
            ELSE IF j = 0
            THEN ShowInParent(c, [els |-> InsertAt(r.els, pos, Translated(translatedText.str)),
                                  off |-> r.off + 1, wrote |-> TRUE], n, i + 1)
            ELSE ShowInParent(c, [r EXCEPT !.els[j].text = translatedText.str,
                                           !.els[j].display = "block",
                                           !.wrote = TRUE], n, i + 1)

ShowParent(c, els) == ShowInParent(c, [els |-> els, off |-> 0, wrote |-> FALSE], Len(els), 1)

showStoredSubtitle(s) == [s EXCEPT !.dom = [p \in Parents |-> ShowParent(s.cache, s.dom[p]).els]]

\* the host's side of the page, read fresh by the script
Env == [location |-> location, container |-> container, button |-> button]

\* ------------------------------------------------------------- navigation
\* the popstate listener
onPopState(s, e) ==
    IF e.location # s.currentUrl
    THEN [s EXCEPT !.currentUrl = e.location, !.timers.nav = @ + 1]
    ELSE s

\* the urlObserver callback
urlObserverCallback(s, e) ==
    IF e.location # s.currentUrl
    THEN [s EXCEPT !.currentUrl = e.location, !.timers.nav = @ + 1]
    ELSE s

RECURSIVE DeliverNav(_, _, _)
DeliverNav(s, e, n) == IF n = 0 THEN s ELSE DeliverNav(urlObserverCallback(s, e), e, n - 1)

setupNavigationDetection(s) == Observe(s, "nav")

\* --------------------------------------------------------- initialization
\* document.querySelector(selector) finds an element
Found(e, selector) == IF selector = "container" THEN e.container ELSE e.button # "absent"

\* initializeExtension after the play/pause button's waitForElement resolved
AfterButton(s) == Observe(s, "button")

\* initializeExtension after the container's waitForElement resolved: the
\* caption observer, then waitForElement for the play/pause button
AfterContainer(s, e) ==
    LET s1 == Observe(s, "caption")
    IN IF Found(e, "button") THEN AfterButton(s1)
       ELSE [s1 EXCEPT !.waiting = Append(@, "button")]

initializeExtension(s, e) ==
    LET s1 == cleanup(s)
    IN IF Found(e, "container") THEN AfterContainer(s1, e)
       ELSE [s1 EXCEPT !.waiting = Append(@, "container")]

\* the waiters' observer callbacks after a document mutation: each suspended
\* run whose element is now found resumes, the others keep waiting
RECURSIVE Resume(_, _, _)
Resume(s, e, ws) ==
    IF ws = <<>> THEN s
    ELSE LET w == Head(ws)
             s1 == IF ~Found(e, w) THEN [s EXCEPT !.waiting = Append(@, w)]
                   ELSE IF w = "container" THEN AfterContainer(s, e)
                   ELSE AfterButton(s)
         IN Resume(s1, e, Tail(ws))

\* a childList mutation somewhere in the document: the navigation observers
\* and the waiters are notified
DeliverDocument(s, e) ==
    LET s1 == DeliverNav(s, e, Count(s.registered, "nav"))
    IN Resume([s1 EXCEPT !.waiting = <<>>], e, s1.waiting)

\* ------------------------------------------------------------- rendering
RECURSIVE ShowTimes(_, _)
ShowTimes(s, n) == IF n = 0 THEN s ELSE ShowTimes(showStoredSubtitle(s), n - 1)

\* the parents that got a new translated element between s and s1
Created(s, s1) == {p \in Parents : FirstTranslated(s.dom[p]) = 0 /\ FirstTranslated(s1.dom[p]) # 0}

RECURSIVE DeliverCreated(_, _)
DeliverCreated(s, ps) ==
    IF ps = {} THEN s
    ELSE LET p == CHOOSE q \in ps : \A r \in ps : q <= r
         IN DeliverCreated(DeliverCaption(s, p, FirstTranslated(s.dom[p]), Count(s.registered, "caption")),
                           ps \ {p})

Shown(s, e, n) ==
    LET s1 == ShowTimes(s, n)
        s2 == DeliverCreated(s1, Created(s, s1))
    IN IF \E p \in Parents : ShowParent(s.cache, s.dom[p]).wrote
       THEN DeliverDocument(s2, e) ELSE s2

\* checkAndShowSubtitles without the isPaused test
checkAndShowSubtitles_NoGate(s, e, n) == IF n > 0 THEN Shown(s, e, n) ELSE s

\* checkAndShowSubtitles that only tests that the button exists
checkAndShowSubtitles_AnyClass(s, e, n) ==
    IF e.button # "absent" /\ n > 0 THEN Shown(s, e, n) ELSE s

\* checkAndShowSubtitles called n times in one task, then the mutation
\* records of what it wrote are delivered
checkAndShowSubtitles(s, e, n) ==
    IF e.button = "paused" /\ n > 0 THEN Shown(s, e, n) ELSE s

\* ------------------------------------------------------------------ tasks
Pending == timers.nav + timers.retry + timers.load + Len(waiting)
NumOrig(els) == Cardinality({i \in 1..Len(els) : ~IsTranslated(els[i])})

\* script start: the bootstrap at the end of the file, then
\* setupNavigationDetection, then the continuation of the first run
Boot(loading, e) ==
    LET s0 == [cache |-> <<>>, observers |-> <<>>, currentUrl |-> e.location,
               registered |-> <<>>, waiting |-> <<>>,
               timers |-> [nav |-> 0, retry |-> 0, load |-> 0],
               inflight |-> [k \in Keys |-> 0], fetchCalls |-> [k \in Keys |-> 0],
               dom |-> [p \in Parents |-> <<>>]]
    IN IF loading THEN setupNavigationDetection([s0 EXCEPT !.timers.load = 1])
       ELSE LET s1 == cleanup(s0)
            IN IF Found(e, "container") THEN AfterContainer(setupNavigationDetection(s1), e)
               ELSE setupNavigationDetection([s1 EXCEPT !.waiting = Append(@, "container")])

Calls == 1..NumCalls
\* a call that has not been made yet
Idle == [selector |-> "", timeout |-> 0, promise |-> "idle", value |-> "",
         observing |-> FALSE, timer |-> FALSE, elapsed |-> 0]

Init ==
    /\ waits = [w \in Calls |-> Idle]
    /\ response = <<>> /\ returned = <<>>
    /\ \E loading \in BOOLEAN, c \in BOOLEAN, b \in {"absent", "playing"} :
        LET e == [location |-> "u1", container |-> c, button |-> b]
            s == Boot(loading, e)
        IN /\ location = e.location /\ container = c /\ button = b
              /\ translationCache = s.cache /\ observers = s.observers
              /\ currentUrl = s.currentUrl /\ registered = s.registered
              /\ waiting = s.waiting /\ timers = s.timers
              /\ inflight = s.inflight /\ fetchCalls = s.fetchCalls /\ dom = s.dom

\* history.pushState by the host: the URL changes, no event is fired
HostNavigate ==
    \E u \in Urls \ {location} :
        /\ Pending < MaxPending
        /\ location' = u
        /\ UNCHANGED <<translationCache, observers, currentUrl, registered, waiting,
                       timers, inflight, fetchCalls, dom, container, button, waits,
                       response, returned>>

\* back/forward: the URL changes and popstate is fired
PopState ==
    \E u \in Urls \ {location} :
        /\ Pending < MaxPending
        /\ location' = u
        /\ Commit(onPopState(Prog, [Env EXCEPT !.location = u]))
        /\ UNCHANGED <<container, button>>

\* the host inserts the caption container
ContainerAppears ==
    /\ ~container
    /\ container' = TRUE
    /\ Commit(DeliverDocument(Prog, [Env EXCEPT !.container = TRUE]))
    /\ UNCHANGED <<location, button>>

\* the host inserts the play/pause control
ButtonAppears ==
    \E b \in {"playing", "paused"} :
        /\ button = "absent"
        /\ button' = b
        /\ Commit(DeliverDocument(Prog, [Env EXCEPT !.button = b]))
        /\ UNCHANGED <<location, container>>

\* the host appends a caption paragraph to a parent; the batch lists the node
\* once, or twice when the host also moves it in the same task
HostInsertCaption(max) ==
    \E p \in Parents, raw \in RawTexts, times \in 1..2 :
        /\ container
        /\ NumOrig(dom[1]) + NumOrig(dom[2]) < max
        /\ LET s1 == [Prog EXCEPT !.dom[p] = Append(@, Orig(raw))]
               s2 == DeliverCaption(s1, p, Len(s1.dom[p]), times * Count(s1.registered, "caption"))
           IN Commit(DeliverDocument(s2, Env))
        /\ UNCHANGED <<location, container, button>>

\* the host empties a caption parent
HostClearCaptions ==
    \E p \in Parents :
        /\ dom[p] # <<>>
        /\ Commit(DeliverDocument([Prog EXCEPT !.dom[p] = <<>>], Env))
        /\ UNCHANGED <<location, container, button>>

\* the host removes one of its caption paragraphs; the caption observers are
\* delivered a record without added nodes
HostRemoveCaption ==
    \E p \in Parents :
        \E i \in 1..Len(dom[p]) :
            /\ ~IsTranslated(dom[p][i])
            /\ Commit(DeliverDocument(
                   [Prog EXCEPT !.dom[p] = SubSeq(@, 1, i - 1) \o SubSeq(@, i + 1, Len(@))], Env))
            /\ UNCHANGED <<location, container, button>>

\* the host changes the document elsewhere
HostMutation ==
    /\ Commit(DeliverDocument(Prog, Env))
    /\ UNCHANGED <<location, container, button>>

\* the player changes the play/pause button's class attribute, with or
\* without the paused marker in the new value
ButtonClassChange ==
    \E b \in {"playing", "paused"} :
        /\ button # "absent"
        /\ button' = b
        /\ Commit(checkAndShowSubtitles(Prog, [Env EXCEPT !.button = b], Count(registered, "button")))
        /\ UNCHANGED <<location, container>>

\* a .then callback that deletes the entry when the translation is empty
OnTranslated_DeletesOnFailure(s, e, text, translatedText) ==
    IF translatedText # <<>>
    THEN checkAndShowSubtitles([s EXCEPT !.cache = Put(@, text, Str(translatedText))], e, 1)
    ELSE [s EXCEPT !.cache = [k \in DOMAIN s.cache \ {text} |-> s.cache[k]]]

\* a .then callback that stores and shows whatever fetchTranslation gave
OnTranslated_Unchecked(s, e, text, translatedText) ==
    checkAndShowSubtitles([s EXCEPT !.cache = Put(@, text, Str(translatedText))], e, 1)

\* the .then callback in storeSubtitle once fetchTranslation resolved
OnTranslated(s, e, text, translatedText) ==
    IF translatedText # <<>>
    THEN checkAndShowSubtitles([s EXCEPT !.cache = Put(@, text, Str(translatedText))], e, 1)
    ELSE s

FetchResolves ==
    \E text \in Keys, ok \in BOOLEAN :
        /\ inflight[text] > 0
        /\ Commit(OnTranslated([Prog EXCEPT !.inflight[text] = @ - 1], Env, text,
                               FetchTranslation(text, ok)))
        /\ UNCHANGED <<location, container, button>>

\* a scheduled initializeExtension starts: DOMContentLoaded, the 500 ms
\* navigation delay or the 2 s retry delay
InitFires ==
    \E kind \in {"nav", "retry", "load"} :
        /\ timers[kind] > 0
        /\ Commit(initializeExtension([Prog EXCEPT !.timers[kind] = @ - 1], Env))
        /\ UNCHANGED <<location, container, button>>

\* a timeout that is fatal whichever element was awaited
OnTimeout_AllFatal(s, i) ==
    [s EXCEPT !.waiting = SubSeq(@, 1, i - 1) \o SubSeq(@, i + 1, Len(@)),
              !.timers.retry = @ + 1]

\* a container timeout that gives up instead of scheduling the retry
OnTimeout_NoRetry(s, i) ==
    [s EXCEPT !.waiting = SubSeq(@, 1, i - 1) \o SubSeq(@, i + 1, Len(@))]

\* waitForElement's timer rejects a suspended run
OnTimeout(s, i) ==
    LET s1 == [s EXCEPT !.waiting = SubSeq(@, 1, i - 1) \o SubSeq(@, i + 1, Len(@))]
    IN IF s.waiting[i] = "container" THEN [s1 EXCEPT !.timers.retry = @ + 1] ELSE s1

WaitTimesOut ==
    \E i \in 1..Len(waiting) :
        /\ Commit(OnTimeout(Prog, i))
        /\ UNCHANGED <<location, container, button>>

Next ==
    \/ HostNavigate
    \/ PopState
    \/ ContainerAppears
    \/ ButtonAppears
    \/ HostInsertCaption(MaxNavCaptions)
    \/ HostClearCaptions
    \/ HostMutation
    \/ ButtonClassChange
    \/ FetchResolves
    \/ InitFires
    \/ WaitTimesOut

\* the page's whole life, navigations included
Spec == Init /\ [][Next]_vars

\* one page without navigation: the first session and its retries
NextSession ==
    \/ ContainerAppears
    \/ ButtonAppears
    \/ HostInsertCaption(MaxCaptions)
    \/ HostClearCaptions
    \/ HostMutation
    \/ ButtonClassChange
    \/ FetchResolves
    \/ InitFires
    \/ WaitTimesOut

SpecSession == Init /\ [][NextSession]_vars


\* one page where the host also removes single caption paragraphs
NextRemoval == NextSession \/ HostRemoveCaption

SpecRemoval == Init /\ [][NextRemoval]_vars

\* the same, with the browser's guarantee that a scheduled call is made
SpecSessionFair == SpecSession /\ WF_vars(InitFires)

\* ------------------------------------------------- waitForElement, timed
\* The calls the script makes: the container with the default timeout, the
\* play/pause button with 5000 ms.
DefaultTimeout == 10000
ButtonTimeout == 5000
CallSites == {<<"container", DefaultTimeout>>, <<"button", ButtonTimeout>>}

\* a promise settles once: resolve and reject on a settled promise do nothing
Settle(w, outcome, value) ==
    IF w.promise = "pending" THEN [w EXCEPT !.promise = outcome, !.value = value] ELSE w

\* the timer callback without the reject
OnTimer_NoReject(w) == [w EXCEPT !.observing = FALSE, !.timer = FALSE]

\* waitForElement's setTimeout callback: observer.disconnect(); reject(...)
OnTimer(w) ==
    Settle([w EXCEPT !.observing = FALSE, !.timer = FALSE], "rejected", "Timeout waiting for element")

\* the observer callback that resolves without obs.disconnect()
OnMutation_NoDisconnect(w, e) ==
    IF w.observing /\ Found(e, w.selector) THEN Settle(w, "resolved", w.selector) ELSE w

\* waitForElement's observer callback
OnMutation(w, e) ==
    IF w.observing /\ Found(e, w.selector)
    THEN Settle([w EXCEPT !.observing = FALSE], "resolved", w.selector)
    ELSE w

\* waitForElement(selector, timeout) up to its return
waitForElement(e, selector, timeout) ==
    LET w == [Idle EXCEPT !.selector = selector, !.timeout = timeout, !.promise = "pending"]
    IN IF Found(e, selector) THEN Settle(w, "resolved", selector)
       ELSE [w EXCEPT !.observing = TRUE, !.timer = TRUE]

mainVars == <<translationCache, observers, currentUrl, registered, waiting, timers,
              inflight, fetchCalls, dom, location, response, returned>>

InitWaiter ==
    /\ waits = [w \in Calls |-> Idle]
    /\ response = <<>> /\ returned = <<>>
    /\ container = FALSE /\ button = "absent" /\ location = "u1" /\ currentUrl = "u1"
    /\ translationCache = <<>> /\ observers = <<>> /\ registered = <<>> /\ waiting = <<>>
    /\ timers = [nav |-> 0, retry |-> 0, load |-> 0]
    /\ inflight = [k \in Keys |-> 0] /\ fetchCalls = [k \in Keys |-> 0]
    /\ dom = [p \in Parents |-> <<>>]

WaitCalled ==
    \E w \in Calls, site \in CallSites :
        /\ waits[w].promise = "idle"
        /\ waits' = [waits EXCEPT ![w] = waitForElement(Env, site[1], site[2])]
        /\ UNCHANGED <<mainVars, container, button>>

\* the host inserts or removes a matching element: a childList mutation
WaitedElementChanges ==
    \E selector \in {"container", "button"} :
        /\ container' = IF selector = "container" THEN ~container ELSE container
        /\ button' = IF selector = "button"
                     THEN (IF button = "absent" THEN "playing" ELSE "absent") ELSE button
        /\ waits' = [w \in Calls |->
                        OnMutation(waits[w], [Env EXCEPT !.container = container', !.button = button'])]
        /\ UNCHANGED mainVars

WaitTimerFires ==
    \E w \in Calls :
        /\ waits[w].timer /\ waits[w].elapsed >= waits[w].timeout
        /\ waits' = [waits EXCEPT ![w] = OnTimer(waits[w])]
        /\ UNCHANGED <<mainVars, container, button>>

\* time passes, at most up to the next timer that is due
ClockTicks ==
    LET armed == {w \in Calls : waits[w].timer}
        left(w) == waits[w].timeout - waits[w].elapsed
        step == CHOOSE d \in {TickMs} \cup {left(w) : w \in armed} :
                    \A x \in {TickMs} \cup {left(w) : w \in armed} : d <= x
    IN /\ armed # {}
       /\ \A w \in armed : left(w) > 0
       /\ waits' = [w \in Calls |->
                       IF w \in armed THEN [waits[w] EXCEPT !.elapsed = @ + step] ELSE waits[w]]
       /\ UNCHANGED <<mainVars, container, button>>

NextWaiter ==
    \/ WaitCalled
    \/ WaitedElementChanges
    \/ WaitTimerFires
    \/ ClockTicks

SpecWaiter == InitWaiter /\ [][NextWaiter]_vars

\* ------------------------------------------------------------------ claims
Handles == {"caption", "button", "nav"}
Elements(els) == {els[i] : i \in 1..Len(els)}
TranslatedIn(els) == {x \in Elements(els) : IsTranslated(x)}
\* the text and style of a translated element
Face(x) == <<x.text, x.display>>
\* the entry of a paragraph's text is Ready: a non-empty string
Ready(c, raw) ==
    /\ Normalize(raw) \in DOMAIN c
    /\ ~c[Normalize(raw)].null
    /\ c[Normalize(raw)].str # <<>>
\* a task that ran initializeExtension again: the navigation or the retry timer
Restart == \E kind \in {"nav", "retry"} : timers'[kind] < timers[kind]
\* a task that ran checkAndShowSubtitles while the button showed paused
RefreshedPaused ==
    /\ button' = "paused"
    /\ \/ button # button' /\ Count(registered, "button") > 0
       \/ \E k \in Keys : ~Ready(translationCache, k) /\ Ready(translationCache', k)
\* the script created or wrote a translated element in parent p
Wrote(p) == \E x \in TranslatedIn(dom'[p]) : Face(x) \notin {Face(y) : y \in TranslatedIn(dom[p])}

\* C1: fetchTranslation is called at most once for each caption text, however
\* many nodes carry the text and however insertions and resolutions interleave
C1_AtMostOneFetch == \A k \in Keys : fetchCalls[k] <= 1

\* two marked nodes carry one text whose single request has resolved
C1_Witness ==
    \E i, j \in 1..Len(dom[1]) :
        /\ i # j
        /\ dom[1][i].marked /\ dom[1][j].marked
        /\ ~IsTranslated(dom[1][i]) /\ ~IsTranslated(dom[1][j])
        /\ Normalize(dom[1][i].text) = Normalize(dom[1][j].text)
        /\ Normalize(dom[1][i].text) \in Keys
        /\ fetchCalls[Normalize(dom[1][i].text)] = 1
        /\ inflight[Normalize(dom[1][i].text)] = 0

\* C2 as stated: whenever a translated element is displayed, the play/pause
\* button shows the paused state
C2_ShownOnlyWhilePaused ==
    \A p \in Parents : \A x \in TranslatedIn(dom[p]) : x.display = "block" => button = "paused"

\* C2 amended: a translated element is put on display only by a task that
\* finds the button paused; it stays displayed when playback resumes
C2_ShownOnlyByPausedTask ==
    [][(\E p \in Parents :
            Cardinality({i \in 1..Len(dom'[p]) : IsTranslated(dom'[p][i]) /\ dom'[p][i].display = "block"})
          > Cardinality({i \in 1..Len(dom[p]) : IsTranslated(dom[p][i]) /\ dom[p][i].display = "block"}))
        => button' = "paused"]_vars

C2_Witness ==
    /\ button = "paused"
    /\ \E p \in Parents : \E x \in TranslatedIn(dom[p]) : x.display = "block"

\* C3: no two active observers observe the same root with the same
\* configuration, however initializeExtension invocations overlap
C3_NoDuplicateObservers == \A h \in Handles : Count(registered, h) <= 1

\* C4: every observer that is still observing is in the observers list, so
\* after cleanup no observer of the torn-down session is delivered a mutation
C4_TornDownNeverFires == \A h \in Handles : Count(registered, h) <= Count(observers, h)

\* a restart has disconnected the navigation observer of the first session
\* and a later run's observers are active
C4_Witness == Count(registered, "nav") = 0 /\ Count(registered, "caption") > 0 /\ currentUrl = "u2"

C6_EveryNavigationRestarts ==
    [][(/\ location' = location /\ location # currentUrl
        /\ (container' # container \/ (button = "absent") # (button' = "absent") \/ dom' # dom))
       => (currentUrl' = location /\ timers'.nav > timers.nav)]_vars

\* C7: a translated element is created or written only with the Ready entry
\* of a paragraph of its parent
C7_WrittenOnlyFromReady ==
    [][\A p \in Parents : \A x \in TranslatedIn(dom'[p]) :
          Face(x) \notin {Face(y) : y \in TranslatedIn(dom[p])}
          => \E o \in Elements(dom[p]) \cup Elements(dom'[p]) :
                /\ Ready(translationCache', o.text)
                /\ translationCache'[Normalize(o.text)].str = x.text]_vars

\* a parent holds a translated element and a caption whose entry is not Ready
C7_Witness ==
    \E p \in Parents :
        /\ TranslatedIn(dom[p]) # {}
        /\ \E o \in Elements(dom[p]) : ~IsTranslated(o) /\ Normalize(o.text) # <<>> /\ ~Ready(translationCache, o.text)

\* C8: a task that leaves the button missing or not paused creates no
\* translated element and writes none
C8_NoWriteUnlessPaused == [][button' # "paused" => \A p \in Parents : ~Wrote(p)]_vars

\* playback is not paused, a caption's entry is Ready and nothing was rendered
C8_Witness ==
    /\ button # "paused"
    /\ \E p \in Parents :
         /\ TranslatedIn(dom[p]) = {}
         /\ \E o \in Elements(dom[p]) : Ready(translationCache, o.text)

\* C9: after a refresh while paused, every caption paragraph whose entry is
\* Ready has, immediately before it, a shown translated element with its own
\* translation
C9_TranslationBeforeEachCaption ==
    [][RefreshedPaused =>
         \A p \in Parents : \A i \in 1..Len(dom'[p]) :
            (~IsTranslated(dom'[p][i]) /\ Ready(translationCache', dom'[p][i].text))
            => /\ i > 1
               /\ IsTranslated(dom'[p][i - 1])
               /\ dom'[p][i - 1].display = "block"
               /\ dom'[p][i - 1].text = translationCache'[Normalize(dom'[p][i].text)].str]_vars

\* C10: a waitForElement call resolves with the element when it is present at
\* the call or inserted while the call is pending, rejects with the timeout
\* error when its timer fires first, settles once, and is never pending after
\* its timeout
C10_WaiterOutcome ==
    [][\A w \in Calls :
        LET a == waits[w]
            b == waits'[w]
            e == [Env EXCEPT !.container = container', !.button = button']
        IN /\ (a.promise = "idle" /\ b.promise # "idle")
                => IF Found(e, b.selector) THEN b.promise = "resolved" /\ b.value = b.selector
                   ELSE b.promise = "pending"
           /\ (a.promise = "pending" /\ ~Found(Env, a.selector) /\ Found(e, a.selector))
                => b.promise = "resolved" /\ b.value = a.selector
           /\ (a.promise = "pending" /\ a.timer /\ ~b.timer)
                => b.promise = "rejected" /\ b.value = "Timeout waiting for element"
           /\ a.promise \in {"resolved", "rejected"} => b.promise = a.promise /\ b.value = a.value
           /\ b.promise = "pending" => b.timer /\ b.elapsed <= b.timeout]_vars

\* one call was resolved by an insertion and another rejected by its timer
C10_Witness ==
    \E v, w \in Calls :
        /\ waits[v].promise = "resolved" /\ waits[v].elapsed > 0
        /\ waits[w].promise = "rejected" /\ waits[w].elapsed = waits[w].timeout

\* C11: once a waitForElement promise has settled, by a mutation batch or by
\* the timer, its document-wide observer is disconnected
C11_SettledWaiterReleased ==
    \A w \in Calls : waits[w].promise \in {"resolved", "rejected"} => ~waits[w].observing

\* one call was resolved by a mutation with its timer still to come, another
\* was rejected by its timer
C11_Witness ==
    \E v, w \in Calls :
        /\ waits[v].promise = "resolved" /\ waits[v].timer
        /\ waits[w].promise = "rejected"

\* a run's wait for the element timed out: that wait is gone and the element
\* is still missing
TimedOut(selector) ==
    /\ ~Found([Env EXCEPT !.container = container', !.button = button'], selector)
    /\ Count(waiting', selector) < Count(waiting, selector)

\* C12: every run whose container wait times out schedules exactly one
\* further run after the retry delay, without a cap, so once the container is
\* in the document a run completes with a caption observer on it
C12_ContainerTimeoutRetried ==
    /\ [][TimedOut("container")
            => /\ Count(waiting', "container") = Count(waiting, "container") - 1
               /\ timers' = [timers EXCEPT !.retry = @ + 1]]_vars
    /\ (container ~> Count(registered, "caption") > 0)

\* the container arrived while a retry was scheduled and no run was waiting
C12_Witness == container /\ timers.retry > 0 /\ waiting = <<>> /\ Count(registered, "caption") = 0

\* C13: when the play/pause wait times out, the observers stay as they are
\* with a caption observer among them, no retry is scheduled, and a caption
\* inserted while the control is missing is still marked and submitted
C13_ButtonTimeoutNotFatal ==
    [][/\ TimedOut("button")
            => /\ timers' = timers
               /\ observers' = observers /\ registered' = registered
               /\ Count(registered', "caption") > 0 /\ Count(observers', "caption") > 0
       /\ (button' = "absent" /\ Count(registered, "caption") > 0 /\ NumOrig(dom'[1]) > NumOrig(dom[1]))
            => LET node == dom'[1][Len(dom'[1])]
               IN /\ node.marked
                  /\ Normalize(node.text) # <<>> => Has(translationCache', Normalize(node.text))]_vars

\* the control never came, every wait is over, nothing is scheduled, and a
\* caption has been captured
C13_Witness ==
    /\ button = "absent" /\ waiting = <<>> /\ timers = [nav |-> 0, retry |-> 0, load |-> 0]
    /\ Count(registered, "caption") > 0
    /\ \E i \in 1..Len(dom[1]) : dom[1][i].marked /\ Has(translationCache, Normalize(dom[1][i].text))

\* a request for k resolves in this step without making the entry Ready
FailedResolution(k) == inflight'[k] < inflight[k] /\ ~Ready(translationCache', k)
\* the entry of k is Pending and no request for it is under way
Failed(c, k) == k \in DOMAIN c /\ c[k] = Null /\ inflight[k] = 0

\* C14: a failed fetchTranslation gives the empty string; its resolution leaves
\* the entry null, writes nothing in the document and schedules or restarts
\* nothing; afterwards the entry stays null and the text is never requested again
C14_FailureStaysPending ==
    /\ \A k \in Keys : FetchTranslation(k, FALSE) = <<>>
    /\ [][\A k \in Keys :
            /\ FailedResolution(k)
                 => /\ translationCache' = translationCache /\ translationCache'[k] = Null
                    /\ dom' = dom /\ timers' = timers /\ waiting' = waiting
                    /\ observers' = observers /\ registered' = registered
                    /\ fetchCalls' = fetchCalls
            /\ Failed(translationCache, k)
                 => /\ translationCache'[k] = Null
                    /\ fetchCalls'[k] = fetchCalls[k] /\ inflight'[k] = 0]_vars

\* the request of a text failed while paused, and a second node with the same
\* text has been submitted since
C14_Witness ==
    \E k \in Keys :
        /\ Failed(translationCache, k) /\ fetchCalls[k] = 1 /\ button = "paused"
        /\ \E i, j \in 1..Len(dom[1]) :
              /\ i < j /\ dom[1][i].marked /\ dom[1][j].marked
              /\ Normalize(dom[1][i].text) = k /\ Normalize(dom[1][j].text) = k

\* ------------------------------------------- a refresh pass that throws
\* showStoredSubtitle when the callback of the paragraph at dom[p][i] throws at
\* its first DOM call: the exception leaves forEach and reaches the catch that
\* surrounds the whole pass, so the paragraphs before it, in document order,
\* have been handled and the ones after it are not visited
showStoredSubtitleThrows(s, p, i) ==
    [s EXCEPT !.dom = [q \in Parents |->
        IF q < p THEN ShowParent(s.cache, s.dom[q]).els
        ELSE IF q = p
        THEN ShowInParent(s.cache, [els |-> s.dom[q], off |-> 0, wrote |-> FALSE], i - 1, 1).els
        ELSE s.dom[q]]]

\* the player pauses and the one button observer's refresh throws while it
\* patches the paragraph at dom[p][i], a paragraph with a translation to show
RefreshThrowsAt(p, i) ==
    /\ button = "playing" /\ Count(registered, "button") = 1
    /\ i <= Len(dom[p]) /\ Truthy(Get(translationCache, Normalize(dom[p][i].text)))
    /\ button' = "paused"
    /\ LET e == [Env EXCEPT !.button = "paused"]
           s1 == showStoredSubtitleThrows(Prog, p, i)
           s2 == DeliverCreated(s1, Created(Prog, s1))
       IN Commit(IF s1.dom # dom THEN DeliverDocument(s2, e) ELSE s2)
    /\ UNCHANGED <<location, container>>

RefreshThrows == \E p \in Parents, i \in 1..(MaxCaptions + 1) : RefreshThrowsAt(p, i)

NextRenderFault == NextSession \/ RefreshThrows

SpecRenderFault == Init /\ [][NextRenderFault]_vars

\* parent q holds a paragraph whose entry is Ready
HasReady(q) == \E y \in Elements(dom[q]) : Ready(translationCache, y.text)
\* after the step parent q shows the translation of one of its Ready paragraphs
PatchedAfter(q) ==
    \E x \in TranslatedIn(dom'[q]) :
        /\ x.display = "block"
        /\ \E y \in Elements(dom[q]) :
              Ready(translationCache, y.text) /\ x.text = translationCache[Normalize(y.text)].str

\* C15: when patching one paragraph throws during a refresh pass, every other
\* parent that holds a paragraph with a Ready entry still gets its translated
\* element written in that pass
C15_FaultDoesNotAbortPass ==
    [][\A p \in Parents, i \in 1..(MaxCaptions + 1) :
          RefreshThrowsAt(p, i) => \A q \in Parents \ {p} : HasReady(q) => PatchedAfter(q)]_vars

\* C16: storeSubtitle is called at most once with each node, however often the
\* node is listed in a batch and however many caption observers are delivered it
C16_NodeSubmittedOnce ==
    \A p \in Parents : \A i \in 1..Len(dom[p]) :
        /\ dom[p][i].stored <= 1
        /\ dom[p][i].marked <=> dom[p][i].stored = 1

\* two caption observers are active and a submitted node was passed to a
\* callback again
C16_Witness ==
    /\ Count(registered, "caption") >= 2
    /\ \E i \in 1..Len(dom[1]) : dom[1][i].stored = 1 /\ dom[1][i].skipped

\* ------------------------------------------- fetchTranslation's text steps
\* the most fragments in one response
MaxFragments == 2
Hallo == <<"H", "a", "l", "l", "o">>
Welt == <<"W", "e", "l", "t">>
\* fragments a response can carry: with and without a leading or trailing
\* space, with a period inside
Fragments == {Hallo, <<" ">> \o Welt, Welt, Hallo \o <<" ">>, <<"a", ".", "b">>, <<"B">>, <<"a", ".">>}
Responses == UNION {[1..n -> Fragments] : n \in 1..MaxFragments}

InitClient ==
    /\ response \in Responses /\ returned = <<>>
    /\ waits = [w \in Calls |-> Idle]
    /\ container = FALSE /\ button = "absent" /\ location = "u1" /\ currentUrl = "u1"
    /\ translationCache = <<>> /\ observers = <<>> /\ registered = <<>> /\ waiting = <<>>
    /\ timers = [nav |-> 0, retry |-> 0, load |-> 0]
    /\ inflight = [k \in Keys |-> 0] /\ fetchCalls = [k \in Keys |-> 0]
    /\ dom = [p \in Parents |-> <<>>]

\* fetchTranslation joins and cases the parsed fragments and returns
FetchReturns ==
    /\ returned = <<>>
    /\ returned' = JoinAndCase(response)
    /\ UNCHANGED <<translationCache, observers, currentUrl, registered, waiting, timers,
                   inflight, fetchCalls, dom, location, container, button, waits, response>>

NextClient == FetchReturns

SpecClient == InitClient /\ [][NextClient]_vars

\* C17: for the fragments "Hallo" and " Welt" fetchTranslation returns
\* exactly "Hallo welt"
C17_HalloWelt ==
    (response = <<Hallo, <<" ">> \o Welt>> /\ returned # <<>>)
        => returned = <<"H", "a", "l", "l", "o", " ", "w", "e", "l", "t">>

\* C18: an entry of translationCache only moves from absent to null and from
\* null to a non-empty string: a step never removes an entry, never creates
\* one with a value, never takes a value back or changes it, and no entry
\* holds the empty string
C18_EntriesOnlyAdvance ==
    /\ \A k \in DOMAIN translationCache :
          ~translationCache[k].null => translationCache[k].str # <<>>
    /\ [][\A k \in Keys :
            /\ k \in DOMAIN translationCache => k \in DOMAIN translationCache'
            /\ (k \notin DOMAIN translationCache /\ k \in DOMAIN translationCache')
                  => translationCache'[k] = Null
            /\ Ready(translationCache, k)
                  => Ready(translationCache', k) /\ translationCache'[k] = translationCache[k]]_vars

\* of two submitted paragraphs the later one's entry is Ready while the
\* earlier one's is still null: the resolutions came out of order
C18_Witness ==
    \E i, j \in 1..Len(dom[1]) :
        /\ i < j /\ ~IsTranslated(dom[1][i]) /\ ~IsTranslated(dom[1][j])
        /\ dom[1][i].marked /\ dom[1][j].marked
        /\ Normalize(dom[1][i].text) \in DOMAIN translationCache
        /\ translationCache[Normalize(dom[1][i].text)] = Null
        /\ Ready(translationCache, dom[1][j].text)

\* C19: while paused, running showStoredSubtitle twice in succession leaves
\* the document as running it once does
C19_RefreshIdempotent ==
    button = "paused"
        => showStoredSubtitle(showStoredSubtitle(Prog)).dom = showStoredSubtitle(Prog).dom

\* C20: no translated-subtitle element is ever marked processed or passed to
\* storeSubtitle
C20_OnlyHostCaptionsSubmitted ==
    \A p \in Parents : \A x \in TranslatedIn(dom[p]) : ~x.marked /\ x.stored = 0
====
